---- MODULE Spec2Model ----
(***************************************************************************)
(* Micro KV Store (lib/KVStore.js): the block codec, the free-block        *)
(* registry, the file, the index and the promise gate that serialises the  *)
(* file-touching operations.                                               *)
(*                                                                         *)
(* The file is a sequence of bytes; file offset o is index o + 1.          *)
(* A string is a sequence of code points, a Buffer a sequence of bytes.    *)
(*                                                                         *)
(* Scheduling is the event loop's.  A call (set, delete, clear, get,       *)
(* loadDB) runs from its first line to its first await in one step: the    *)
(* synchronous change of the index, the test of this.inProgress and, when  *)
(* the slot is free, the claim and the work up to the file operation.  The *)
(* completion of a file operation resumes its call in one step, up to the  *)
(* next await or the release.  resolve() runs the handlers of the promise  *)
(* in registration order, so the calls it wakes are queued (jobs) ahead of *)
(* whatever the returning call's own caller does next; they run before any *)
(* new call and before any file operation completes.                       *)
(*                                                                         *)
(* The two awaits of openDB() are one step, and so are the two reads       *)
(* loadDB() makes for a block: only locals change between them.  A file    *)
(* operation takes effect when it completes; a rejected one has none.      *)
(* An object of the index (mapV) lives in heap under an id, so that a call *)
(* and the index can hold the same object, or different ones for one key.  *)
(***************************************************************************)
EXTENDS Integers, Sequences, FiniteSets, TLC

\* ------------------------------------------------------------------ bounds
\* number of calls made on the store
MaxOps == 3
\* number of rejected file operations
MaxFail == 1
\* largest exponent tried by CeilLog2 (sizes stay below 2^MaxExp)
MaxExp == 24
\* largest blockBuffer loadDB() is followed with: a block that declares a longer
\* key and value is left unread, and the load is followed no further
MaxBlock == 64
\* largest byte count blockSize() is called with
MaxSize == 200

\* ------------------------------------------------------------- generalities
NULL == -1

Pow2(n) == 2 ^ n

Max(a, b) == IF a >= b THEN a ELSE b

Min(a, b) == IF a <= b THEN a ELSE b

Range(s) == {s[i] : i \in 1..Len(s)}

Zeros(n) == [i \in 1..n |-> 0]

SubBytes(s, from, to) == [i \in 1..Max(0, Min(to, Len(s)) - from) |-> s[from + i]]

\* ------------------------------------------------------------------- UTF-8
\* Buffer.from( string ) / buffer.write( string ): code points up to U+FFFF
RECURSIVE Utf8Encode(_)
Utf8Encode(str) ==
    IF str = <<>> THEN <<>>
    ELSE LET c == Head(str)
             enc == IF c < 128 THEN <<c>>
                    ELSE IF c < 2048 THEN <<192 + (c \div 64), 128 + (c % 64)>>
                    ELSE <<224 + (c \div 4096), 128 + ((c \div 64) % 64), 128 + (c % 64)>>
         IN  enc \o Utf8Encode(Tail(str))

IsCont(b) == b >= 128 /\ b <= 191

\* buffer.toString( 'utf8' ): an ill-formed subsequence decodes to U+FFFD
RECURSIVE Utf8Decode(_)
Utf8Decode(b) ==
    IF b = <<>> THEN <<>>
    ELSE LET b1 == b[1]
             n == Len(b)
         IN  IF b1 < 128 THEN <<b1>> \o Utf8Decode(Tail(b))
             ELSE IF b1 >= 194 /\ b1 <= 223
                  THEN IF n >= 2 /\ IsCont(b[2])
                       THEN <<(b1 - 192) * 64 + (b[2] - 128)>> \o Utf8Decode(SubSeq(b, 3, n))
                       ELSE <<65533>> \o Utf8Decode(Tail(b))
             ELSE IF b1 >= 224 /\ b1 <= 239
                  THEN LET lo == IF b1 = 224 THEN 160 ELSE 128
                           hi == IF b1 = 237 THEN 159 ELSE 191
                       IN  IF n >= 2 /\ b[2] >= lo /\ b[2] <= hi
                           THEN IF n >= 3 /\ IsCont(b[3])
                                THEN <<(b1 - 224) * 4096 + (b[2] - 128) * 64 + (b[3] - 128)>>
                                         \o Utf8Decode(SubSeq(b, 4, n))
                                ELSE <<65533>> \o Utf8Decode(SubSeq(b, 3, n))
                           ELSE <<65533>> \o Utf8Decode(Tail(b))
             ELSE <<65533>> \o Utf8Decode(Tail(b))

\* ------------------------------------------------------------- block codec
FLAG_FREE_BLOCK == 128
FLAG_LARGE_LPS == 64
FLAG_PLUS_HALF_SIZE == 32
MASK_POWER_OF_2_SIZE == 31

HasFlag(flags, bit) == (flags \div bit) % 2 = 1

extractBlockSize(flags) ==
    Pow2(flags % (MASK_POWER_OF_2_SIZE + 1))
        * (IF HasFlag(flags, FLAG_PLUS_HALF_SIZE) THEN 24 ELSE 16)

\* Math.ceil( Math.log2( num / den ) ): the least p with 2^p >= num / den
CeilLog2(num, den) ==
    CHOOSE p \in -2..MaxExp :
        /\ IF p >= 0 THEN den * Pow2(p) >= num ELSE den >= num * Pow2(0 - p)
        /\ \A q \in -2..(p - 1) :
               ~ (IF q >= 0 THEN den * Pow2(q) >= num ELSE den >= num * Pow2(0 - q))

\* a blockSize() that knows no half step: the next power of two
BlockSizeFromPow2(p1, p2) ==
    [powerOf2 |-> IF p1 < 4 THEN 4 ELSE p1,
     half |-> FALSE,
     blockSize |-> IF p1 < 4 THEN 16 ELSE Pow2(p1)]

\* blockSize() from its two logarithms on: the locals once both adjustments are made
BlockSizeFrom(p1, p2) ==
    LET p == IF p1 = p2 THEN p1 ELSE p2
    IN  [powerOf2 |-> IF p < 4 THEN 4 ELSE p,
         half |-> IF p < 4 THEN FALSE ELSE p1 # p2,
         blockSize |-> IF p < 4 THEN 16
                       ELSE IF p1 = p2 THEN Pow2(p) ELSE (Pow2(p) * 3) \div 2]

\* the locals of blockSize( size ), size = num / den
BlockSizeLocals(num, den) == BlockSizeFrom(CeilLog2(num, den), CeilLog2(2 * num, 3 * den))

blockSize(num, den) == BlockSizeLocals(num, den).blockSize

\* toFlags &= MASK_NON_SIZE and the size bits of the locals l
FlagsFrom(l, toFlags) ==
    (toFlags \div 64) * 64 + Max(0, l.powerOf2 - 4) + (IF l.half THEN FLAG_PLUS_HALF_SIZE ELSE 0)

\* blockSizeToFlags( size , toFlags ); NULL stands for the throw of "Block size too big"
blockSizeToFlags(num, den, toFlags) ==
    IF BlockSizeLocals(num, den).powerOf2 - 4 > 31 THEN NULL
    ELSE FlagsFrom(BlockSizeLocals(num, den), toFlags)

\* values: [t |-> "s", d |-> code points] is a string, [t |-> "b", d |-> bytes] a Buffer
Str(d) == [t |-> "s", d |-> d]
Buf(d) == [t |-> "b", d |-> d]

ValueBytes(value) == IF value.t = "b" THEN value.d ELSE Utf8Encode(value.d)

UInt16BE(n) == <<(n \div 256) % 256, n % 256>>
UInt32BE(n) == <<(n \div 16777216) % 256, (n \div 65536) % 256, (n \div 256) % 256, n % 256>>

INSERT_SIZE_OPTIMIZATION_NUM == 6
INSERT_SIZE_OPTIMIZATION_DEN == 5

\* an entryBuffer() that leaves the end of the block as Buffer.allocUnsafe() gave it
EntryBlockUnfilled(keyBytes, valBytes, largeLPS, entrySize, bSize, sizeFlags) ==
    LET keyLength == Len(keyBytes)
        valueLength == Len(valBytes)
        flags == sizeFlags + (IF largeLPS THEN FLAG_LARGE_LPS ELSE 0)
    IN  [buf |-> (IF largeLPS THEN <<flags>> \o UInt16BE(keyLength) \o UInt32BE(valueLength)
                  ELSE <<flags, keyLength % 256>> \o UInt16BE(valueLength))
                     \o keyBytes \o valBytes \o [i \in 1..(bSize - entrySize) |-> 255],
         vo |-> (IF largeLPS THEN 7 ELSE 4) + keyLength,
         vs |-> valueLength,
         throws |-> sizeFlags = NULL \/ keyLength > 65535]

\* entryBuffer() from the allocation of the block on: sizeFlags are the flags of its size
EntryBlock(keyBytes, valBytes, largeLPS, entrySize, bSize, sizeFlags) ==
    LET keyLength == Len(keyBytes)
        valueLength == Len(valBytes)
        flags == sizeFlags + (IF largeLPS THEN FLAG_LARGE_LPS ELSE 0)
    IN  [buf |-> (IF largeLPS THEN <<flags>> \o UInt16BE(keyLength) \o UInt32BE(valueLength)
                  ELSE <<flags, keyLength % 256>> \o UInt16BE(valueLength))
                     \o keyBytes \o valBytes \o Zeros(bSize - entrySize),
         vo |-> (IF largeLPS THEN 7 ELSE 4) + keyLength,
         vs |-> valueLength,
         throws |-> sizeFlags = NULL \/ keyLength > 65535]

\* entryBuffer() once the lengths are known: the choice of the block size
EntrySized(keyBytes, valBytes, largeLPS, entrySize, existingSize, sizeFlags) ==
    EntryBlock(keyBytes, valBytes, largeLPS, entrySize,
               IF existingSize # NULL /\ entrySize <= existingSize THEN existingSize
               ELSE IF sizeFlags = NULL THEN entrySize ELSE extractBlockSize(sizeFlags),
               sizeFlags)

EntryOf(keyBytes, valBytes, largeLPS, entrySize, existingSize) ==
    EntrySized(keyBytes, valBytes, largeLPS, entrySize, existingSize,
               IF existingSize # NULL /\ entrySize <= existingSize
               THEN blockSizeToFlags(existingSize, 1, 0)
               ELSE blockSizeToFlags(entrySize * INSERT_SIZE_OPTIMIZATION_NUM,
                                     INSERT_SIZE_OPTIMIZATION_DEN, 0))

EntryOfBytes(keyBytes, valBytes, largeLPS, existingSize) ==
    EntryOf(keyBytes, valBytes, largeLPS,
            1 + (IF largeLPS THEN 6 ELSE 3) + Len(keyBytes) + Len(valBytes), existingSize)

EntryOfLengths(keyBytes, valBytes, existingSize) ==
    EntryOfBytes(keyBytes, valBytes, Len(keyBytes) > 255 \/ Len(valBytes) > 65535, existingSize)

\* entryBuffer( key , value , existingSize ); existingSize is NULL for undefined.
\* Result: the block, the vo / vs given to mapVToPopulate, and whether it throws.
entryBuffer(key, value, existingSize) ==
    EntryOfLengths(Utf8Encode(key), ValueBytes(value), existingSize)

\* ------------------------------------------------------------------ inputs
KeyA == <<97>>
KeyB == <<98>>
Keys == {KeyA, KeyB}

\* a number, a string that needs a 24-byte block, a Buffer that is not UTF-8
ValNum == [t |-> "n", d |-> 1]
ValLong == Str(<<120, 120, 120, 120, 120, 120, 120, 120, 120, 120, 120, 120, 120>>)
ValBin == Buf(<<255>>)
Values == <<ValNum, ValLong, ValBin>>

\* content Buffer.allocUnsafe() may hand out
Garbage == {0, 255}

\* the file found on disk: absent (created empty), or left by an earlier
\* session that stored KeyA
InitFiles == {<<>>, entryBuffer(KeyA, Str(<<49>>), NULL).buf}

Tasks == 1..MaxOps

\* ------------------------------------------------------------------- state
VARIABLES
    bufferValues,   \* options.bufferValues
    inMemoryValues, \* options.inMemoryValues
    file,           \* the bytes of the file at filePath
    fileOpen,       \* this.file is set
    eof,            \* this.eof
    map,            \* this.map: key -> id of its mapV object, 0 when absent
    heap,           \* the mapV objects
    freeBlocks,     \* this.freeBlocks: block size -> stack of offsets
    inProgress,     \* this.inProgress is a pending promise
    waiters,        \* the calls awaiting this.inProgress, in registration order
    jobs,           \* the resumed calls the event loop has yet to run
    tasks,          \* the calls: operation, arguments, locals, position
    nOps,           \* number of calls made
    ld,             \* loadDB's locals: offset and blockBuffer
    nFail,          \* number of rejected file operations
    initFile,       \* (history) the file as found when the store was built
    called,         \* (history) keys set and not deleted or cleared since, in call order
    lastMut,        \* (history) key -> latest call of set / delete / clear on it
    lastSet,        \* (history) key -> latest call of set on it
    expectV,        \* (history) key -> value of its returned, latest set
    deleted,        \* (history) keys whose latest delete returned
    loadCalls,      \* (history) number of loadDB calls
    loadRace,       \* (history) loadDB overlapped another call, or was not the first call
    firstOp,        \* (history) the first operation called
    ret,            \* (history) the call that returned in the last step
    freed,          \* (history) the offsets clearBlock() freed since the last clear, in order
    probe           \* a call of blockSize() / blockSizeToFlags(): arguments and results

vars == <<bufferValues, inMemoryValues, file, fileOpen, eof, map, heap, freeBlocks,
          inProgress, waiters, jobs, tasks, nOps, ld, nFail, initFile, called,
          lastMut, lastSet, expectV, deleted, loadCalls, loadRace, firstOp, ret, freed,
          probe>>

NoValue == [t |-> "u", d |-> <<>>]
BlankObj == [v |-> NoValue, o |-> NULL, s |-> NULL, vo |-> NULL, vs |-> NULL]
NoTask == [op |-> "none", key |-> <<>>, val |-> NoValue, mapV |-> 0, pc |-> "none",
           eb |-> <<>>, wbuf |-> <<>>, pos |-> NULL,
           o0 |-> NULL, s0 |-> NULL, eof0 |-> NULL, fb0 |-> <<>>, nw |-> 0,
           ov |-> FALSE]
DoneTask == [NoTask EXCEPT !.pc = "done"]
NoLd == [offset |-> 0, blockBuffer |-> <<>>]
NoProbe == [n |-> 0, f |-> 0, size |-> NULL, flags |-> NULL]
NoRet == [t |-> 0, op |-> "none", key |-> <<>>, o |-> NULL, s |-> NULL, val |-> NoValue,
          tk |-> NoTask]

Waiting == {"wait"}
Holding == {"open", "write", "rel_clear", "del_clear", "truncate", "read", "load"}

\* the mutable part of the state, threaded through the steps of one job
Cur == [file |-> file, fileOpen |-> fileOpen, eof |-> eof, map |-> map, heap |-> heap,
        freeBlocks |-> freeBlocks, inProgress |-> inProgress, waiters |-> waiters,
        jobs |-> jobs, tasks |-> tasks, ld |-> ld, expectV |-> expectV,
        deleted |-> deleted, ret |-> NoRet, freed |-> freed]

\* ------------------------------------------------------------ file backend
\* file.write( buf , 0 , buf.length , pos ): writing past the end leaves a hole of zeros
WriteAt(f, buf, pos) ==
    LET end == pos + Len(buf)
    IN  [i \in 1..Max(Len(f), end) |->
            IF i > pos /\ i <= end THEN buf[i - pos]
            ELSE IF i <= Len(f) THEN f[i] ELSE 0]

\* file.read( buffer , bufOff , len , pos ): a short read leaves the rest of buffer as it was
ReadInto(buffer, bufOff, len, f, pos) ==
    LET n == Max(0, Min(len, Len(f) - pos))
    IN  [i \in 1..Len(buffer) |->
            IF i > bufOff /\ i <= bufOff + n THEN f[pos + (i - bufOff)] ELSE buffer[i]]

\* this.freeBlocks[ size ].push( offset ), the stack made when missing
PushFree(fb, size, offset) ==
    IF size \in DOMAIN fb THEN [fb EXCEPT ![size] = Append(@, offset)]
    ELSE fb @@ (size :> <<offset>>)

\* a null position is the descriptor's own position, which positioned I/O never moves
Pos(o) == IF o = NULL THEN 0 ELSE o

\* ------------------------------------------------------------------- set()
RECURSIVE Digits(_)
Digits(n) == IF n < 10 THEN <<48 + n>> ELSE Digits(n \div 10) \o <<48 + (n % 10)>>

\* the value as set() stores it
Normalize(value, bufVals) ==
    IF value.t = "b"
    THEN IF bufVals THEN value ELSE Str(Utf8Decode(value.d))
    ELSE LET str == IF value.t = "s" THEN value.d ELSE Digits(value.d)
         IN  IF bufVals THEN Buf(Utf8Encode(str)) ELSE Str(str)

\* -------------------------------------------------------------------- gate
\* this.inProgress.resolve() ; this.inProgress = null, and the return of the call;
\* woken are the calls the resolved promise resumes, in the order it resumes them
ReleaseWaking(S, t, woken) ==
    LET tk == S.tasks[t]
        obj == IF tk.mapV \in DOMAIN S.heap THEN S.heap[tk.mapV] ELSE BlankObj
    IN  [S EXCEPT !.inProgress = FALSE,
                  !.jobs = S.jobs \o woken,
                  !.waiters = <<>>,
                  !.tasks[t] = DoneTask,
                  !.expectV = IF tk.op \in {"insert", "update"} /\ lastMut[tk.key] = t
                              THEN [@ EXCEPT ![tk.key] = tk.val] ELSE @,
                  !.deleted = IF tk.op = "delete" /\ lastSet[tk.key] < t
                              THEN @ \cup {tk.key} ELSE @,
                  !.ret = [t |-> t, op |-> tk.op, key |-> tk.key, o |-> obj.o, s |-> obj.s,
                            val |-> NoValue, tk |-> tk]]

Reverse(s) == [i \in 1..Len(s) |-> s[Len(s) + 1 - i]]

\* a release that resumes nobody
ReleaseForgetting(S, t) == ReleaseWaking(S, t, <<>>)

\* a release that resumes the latest waiter first
ReleaseLifo(S, t) == ReleaseWaking(S, t, Reverse(S.waiters))

\* the waiters are resumed in the order they registered
Release(S, t) == ReleaseWaking(S, t, S.waiters)

\* an exception leaves the call without releasing
Throw(S, t) == [S EXCEPT !.tasks[t] = [NoTask EXCEPT !.pc = "failed"]]

\* a placement that takes the oldest offset of the stack
insertEntryBufferFifo(S, t) ==
    LET id == S.tasks[t].mapV
        buf == S.tasks[t].eb
        len == Len(buf)
        reuse == len \in DOMAIN S.freeBlocks /\ S.freeBlocks[len] # <<>>
        stack == S.freeBlocks[len]
        o == IF reuse THEN stack[1] ELSE S.eof
    IN  [S EXCEPT !.freeBlocks = IF reuse THEN [@ EXCEPT ![len] = Tail(stack)] ELSE @,
                  !.eof = IF reuse THEN @ ELSE @ + len,
                  !.heap[id].o = o,
                  !.heap[id].s = len,
                  !.tasks[t].pc = "write",
                  !.tasks[t].wbuf = buf,
                  !.tasks[t].pos = Pos(o)]

\* insertEntryBuffer() up to its await
insertEntryBuffer(S, t) ==
    LET id == S.tasks[t].mapV
        buf == S.tasks[t].eb
        len == Len(buf)
        reuse == len \in DOMAIN S.freeBlocks /\ S.freeBlocks[len] # <<>>
        stack == S.freeBlocks[len]
        o == IF reuse THEN stack[Len(stack)] ELSE S.eof
    IN  [S EXCEPT !.freeBlocks = IF reuse THEN [@ EXCEPT ![len] = SubSeq(stack, 1, Len(stack) - 1)]
                                 ELSE @,
                  !.eof = IF reuse THEN @ ELSE @ + len,
                  !.heap[id].o = o,
                  !.heap[id].s = len,
                  !.tasks[t].pc = "write",
                  !.tasks[t].wbuf = buf,
                  !.tasks[t].pos = Pos(o)]

\* clearBlock() up to its await, clearFlags computed; pc is where the caller waits for it
ClearBlockWith(S, t, pc, obj, clearFlags) ==
    IF obj.s = NULL \/ clearFlags = NULL THEN Throw(S, t)
    ELSE [S EXCEPT !.tasks[t].pc = pc,
                   !.tasks[t].wbuf = <<clearFlags>> \o Zeros(obj.s - 1),
                   !.tasks[t].pos = Pos(obj.o)]

\* clearBlock( mapV ) up to its await
clearBlockStart(S, t, pc) ==
    ClearBlockWith(S, t, pc, S.heap[S.tasks[t].mapV],
                   IF S.heap[S.tasks[t].mapV].s = NULL THEN NULL
                   ELSE blockSizeToFlags(S.heap[S.tasks[t].mapV].s, 1, FLAG_FREE_BLOCK))

\* a clearBlock() that gives the freed bytes back: eof moves down by the block
clearBlockDoneShrinking(S, t) ==
    LET obj == S.heap[S.tasks[t].mapV]
        tk == S.tasks[t]
    IN  [S EXCEPT !.file = WriteAt(@, tk.wbuf, tk.pos),
                  !.tasks[t].nw = @ + 1,
                  !.freed = Append(@, obj.o),
                  !.eof = Max(0, @ - obj.s),
                  !.freeBlocks = PushFree(@, obj.s, obj.o)]

\* clearBlock() after its await
clearBlockDone(S, t) ==
    LET obj == S.heap[S.tasks[t].mapV]
        tk == S.tasks[t]
    IN  [S EXCEPT !.file = WriteAt(@, tk.wbuf, tk.pos),
                  !.tasks[t].nw = @ + 1,
                  !.freed = Append(@, obj.o),
                  !.freeBlocks = PushFree(@, obj.s, obj.o)]

Populate(S, t, e) ==
    IF inMemoryValues THEN [S EXCEPT !.tasks[t].eb = e.buf]
    ELSE [S EXCEPT !.tasks[t].eb = e.buf,
                   !.heap[S.tasks[t].mapV].vo = e.vo,
                   !.heap[S.tasks[t].mapV].vs = e.vs]

\* insertDB() once entryBuffer() made e
InsertEntry(S, t, e) ==
    IF e.throws THEN Throw(S, t) ELSE insertEntryBuffer(Populate(S, t, e), t)

\* insertDB() from entryBuffer() to the write
insertDB(S, t) == InsertEntry(S, t, entryBuffer(S.tasks[t].key, S.tasks[t].val, NULL))

\* an updateDB() whose write in place writes nothing
UpdateEntryUnwritten(P, t, e, obj) ==
    IF e.throws THEN Throw(P, t)
    ELSE IF obj.s # NULL /\ Len(e.buf) > obj.s THEN clearBlockStart(P, t, "rel_clear")
    ELSE [P EXCEPT !.heap[P.tasks[t].mapV].s = Len(e.buf),
                   !.tasks[t].pc = "write",
                   !.tasks[t].wbuf = <<>>,
                   !.tasks[t].pos = Pos(obj.o)]

\* an updateDB() that moves the entry whatever its size
UpdateEntryMoving(P, t, e, obj) ==
    IF e.throws THEN Throw(P, t) ELSE clearBlockStart(P, t, "rel_clear")

\* updateDB() once entryBuffer() made e and populated mapV (state P): relocate, or write in place
UpdateEntry(P, t, e, obj) ==
    IF e.throws THEN Throw(P, t)
    ELSE IF obj.s # NULL /\ Len(e.buf) > obj.s THEN clearBlockStart(P, t, "rel_clear")
    ELSE [P EXCEPT !.heap[P.tasks[t].mapV].s = Len(e.buf),
                   !.tasks[t].pc = "write",
                   !.tasks[t].wbuf = e.buf,
                   !.tasks[t].pos = Pos(obj.o)]

UpdatePopulated(S, t, e) == UpdateEntry(Populate(S, t, e), t, e, S.heap[S.tasks[t].mapV])

\* updateDB() from entryBuffer() to its first write
updateDB(S, t) ==
    UpdatePopulated(S, t, entryBuffer(S.tasks[t].key, S.tasks[t].val,
                                      S.heap[S.tasks[t].mapV].s))

deleteDB(S, t) == clearBlockStart(S, t, "del_clear")

clearDB(S, t) == [S EXCEPT !.tasks[t].pc = "truncate"]

\* retrieveDB() up to the read
retrieveDB(S, t) ==
    LET obj == S.heap[S.tasks[t].mapV]
    IN  IF obj.vs = NULL \/ obj.vo = NULL \/ obj.o = NULL THEN Throw(S, t)
        ELSE [S EXCEPT !.tasks[t].pc = "read", !.tasks[t].pos = obj.o + obj.vo]

\* loadDB(): the test of its loop
loadLoop(S, t) ==
    IF S.ld.offset < S.eof THEN [S EXCEPT !.tasks[t].pc = "load"]
    ELSE Release([S EXCEPT !.ld = NoLd], t)

loadDB(S, t, g) == loadLoop([S EXCEPT !.ld = [offset |-> 0, blockBuffer |-> [i \in 1..16 |-> g]]], t)

\* the smallest object id in use neither by the index nor by a call
FreshId(S) ==
    LET used == {S.map[k] : k \in DOMAIN S.map} \cup {S.tasks[t].mapV : t \in Tasks}
    IN  CHOOSE i \in 1..(Cardinality(used) + 1) : i \notin used

MapSet(S, key, obj) ==
    LET id == FreshId(S)
    IN  [S EXCEPT !.map = [k \in DOMAIN @ \cup {key} |-> IF k = key THEN id ELSE @[k]],
                  !.heap = [i \in DOMAIN @ \cup {id} |-> IF i = id THEN obj ELSE @[i]]]

\* loadDB(): the block is read (b holds it), its key and value bytes are known
LoadEntry(S, t, bSize, b, keyBytes, valBytes, vo, valueLength) ==
    loadLoop([MapSet(S, Utf8Decode(keyBytes),
                     IF inMemoryValues
                     THEN [BlankObj EXCEPT !.v = IF bufferValues THEN Buf(valBytes)
                                                 ELSE Str(Utf8Decode(valBytes)),
                                           !.o = S.ld.offset, !.s = bSize]
                     ELSE [BlankObj EXCEPT !.o = S.ld.offset, !.s = bSize,
                                           !.vo = vo, !.vs = valueLength])
                 EXCEPT !.ld.blockBuffer = b, !.ld.offset = S.ld.offset + bSize], t)

\* slices taken without subOffset += keyLength
LoadSlicesNoKey(S, t, bSize, keyLength, valueLength, subOffset, b3) ==
    LoadEntry(S, t, bSize, b3,
              SubBytes(b3, subOffset, subOffset + keyLength),
              SubBytes(b3, subOffset, subOffset + valueLength),
              subOffset, valueLength)

\* loadDB(): the key and the value sliced from blockBuffer b3
LoadSlices(S, t, bSize, keyLength, valueLength, subOffset, b3) ==
    LoadEntry(S, t, bSize, b3,
              SubBytes(b3, subOffset, subOffset + keyLength),
              SubBytes(b3, subOffset + keyLength, subOffset + keyLength + valueLength),
              subOffset + keyLength, valueLength)

\* loadDB(): the second read, into b2, and the slices of key and value
LoadRead2(S, t, bSize, keyLength, valueLength, subOffset, remaining, b2) ==
    LoadSlices(S, t, bSize, keyLength, valueLength, subOffset,
               IF remaining > 0 THEN ReadInto(b2, 7, remaining, S.file, S.ld.offset + 7)
               ELSE b2)

\* loadDB(): a live block whose lengths are read; blockBuffer grows and the rest is read
LoadLive(S, t, g, b1, bSize, keyLength, valueLength, subOffset, remaining) ==
    IF 7 + remaining > MaxBlock THEN [S EXCEPT !.tasks[t].pc = "beyond"]
    ELSE
    LoadRead2(S, t, bSize, keyLength, valueLength, subOffset, remaining,
              IF Len(b1) < 7 + remaining
              THEN [i \in 1..blockSize(7 + remaining, 1) |-> IF i <= 7 THEN b1[i] ELSE g]
              ELSE b1)

\* loadDB(): the header of the block is in b1
LoadHeader(S, t, g, b1, large) ==
    IF HasFlag(b1[1], FLAG_FREE_BLOCK)
    THEN loadLoop([S EXCEPT !.freeBlocks = PushFree(@, extractBlockSize(b1[1]), S.ld.offset),
                            !.ld.blockBuffer = b1,
                            !.ld.offset = @ + extractBlockSize(b1[1])], t)
    ELSE LET keyLength == IF large THEN b1[2] * 256 + b1[3] ELSE b1[2]
             valueLength == IF large THEN ((b1[4] * 256 + b1[5]) * 256 + b1[6]) * 256 + b1[7]
                            ELSE b1[3] * 256 + b1[4]
         IN  LoadLive(S, t, g, b1, extractBlockSize(b1[1]), keyLength, valueLength,
                      IF large THEN 7 ELSE 4,
                      (IF large THEN 0 ELSE -3) + keyLength
                          + (IF inMemoryValues THEN valueLength ELSE 0))

LoadFlags(S, t, g, b1) == LoadHeader(S, t, g, b1, HasFlag(b1[1], FLAG_LARGE_LPS))

\* one turn of loadDB()'s loop: the block at offset is read and indexed
loadBlock(S, t, g) ==
    LoadFlags(S, t, g, ReadInto(S.ld.blockBuffer, 0, 7, S.file, S.ld.offset))

\* the operation itself
Operation(S, t, g) ==
    CASE S.tasks[t].op = "insert" -> insertDB(S, t)
      [] S.tasks[t].op = "update" -> updateDB(S, t)
      [] S.tasks[t].op = "delete" -> deleteDB(S, t)
      [] S.tasks[t].op = "clear" -> clearDB(S, t)
      [] S.tasks[t].op = "get" -> retrieveDB(S, t)
      [] S.tasks[t].op = "load" -> loadDB(S, t, g)

\* (history) what the operation finds: its mapV's block, eof and the registry
Found(S, t, obj) ==
    [S EXCEPT !.tasks[t].o0 = obj.o, !.tasks[t].s0 = obj.s,
              !.tasks[t].eof0 = S.eof, !.tasks[t].fb0 = S.freeBlocks]

\* the operation once the slot is claimed and the file is open
Body(S, t, g) ==
    Operation(Found(S, t, IF S.tasks[t].mapV \in DOMAIN S.heap THEN S.heap[S.tasks[t].mapV]
                          ELSE BlankObj), t, g)

\* this.inProgress = new Promise() ; if ( ! this.file ) { await this.openDB() ; }
Claim(S, t, g) ==
    LET S1 == [S EXCEPT !.inProgress = TRUE]
    IN  IF ~ S1.fileOpen THEN [S1 EXCEPT !.tasks[t].pc = "open"] ELSE Body(S1, t, g)

\* a gate without its while loop
GateNoWait(S, t, g) == Claim(S, t, g)

\* while ( this.inProgress ) { await this.inProgress ; }
Gate(S, t, g) ==
    IF S.inProgress
    THEN [S EXCEPT !.waiters = Append(@, t), !.tasks[t].pc = "wait"]
    ELSE Claim(S, t, g)

\* ----------------------------------------------------------------- actions
EmptyMap == [k \in {} |-> 0]

Referenced(S) == ({S.map[k] : k \in DOMAIN S.map} \cup {S.tasks[t].mapV : t \in Tasks}) \ {0}

\* the state after a job: objects nothing refers to any more are dropped
Commit(S) ==
    /\ file' = S.file
    /\ fileOpen' = S.fileOpen
    /\ eof' = S.eof
    /\ map' = S.map
    /\ heap' = [i \in Referenced(S) |-> S.heap[i]]
    /\ freeBlocks' = S.freeBlocks
    /\ inProgress' = S.inProgress
    /\ waiters' = S.waiters
    /\ jobs' = S.jobs
    /\ tasks' = S.tasks
    /\ ld' = S.ld
    /\ expectV' = S.expectV
    /\ deleted' = S.deleted
    /\ ret' = S.ret
    /\ freed' = S.freed
    /\ UNCHANGED <<bufferValues, inMemoryValues, initFile, probe>>

NoCall == UNCHANGED <<nOps, called, lastMut, lastSet, loadCalls, loadRace, firstOp>>

LoadInFlight == \E t \in Tasks : tasks[t].op = "load" /\ tasks[t].pc \in Waiting \cup Holding

\* a call is made by a job of its own: no resumed call is left to run
CanCall == nOps < MaxOps /\ jobs = <<>>

Called(op) ==
    /\ nOps' = nOps + 1
    /\ firstOp' = IF nOps = 0 THEN op ELSE firstOp
    /\ loadCalls' = IF op = "load" THEN loadCalls + 1 ELSE loadCalls
    /\ loadRace' = (loadRace \/ (IF op = "load" THEN nOps > 0 ELSE LoadInFlight))
    /\ UNCHANGED nFail

\* a set of key was called and has not returned
SetPending(key) ==
    \E u \in Tasks : /\ tasks[u].op \in {"insert", "update"} /\ tasks[u].key = key
                     /\ tasks[u].pc \in Waiting \cup Holding

\* set( key , value )
CallSet(key, v) ==
    LET t == nOps + 1
        value == Normalize(v, bufferValues)
        has == key \in DOMAIN map
        S0 == [Cur EXCEPT !.expectV[key] = NoValue, !.deleted = @ \ {key}]
        S1 == IF has
              THEN IF inMemoryValues THEN [S0 EXCEPT !.heap[map[key]].v = value] ELSE S0
              ELSE MapSet(S0, key, IF inMemoryValues THEN [BlankObj EXCEPT !.v = value]
                                   ELSE BlankObj)
        S2 == [S1 EXCEPT !.tasks[t] = [NoTask EXCEPT !.op = IF has THEN "update" ELSE "insert",
                                                     !.key = key,
                                                     !.val = value,
                                                     !.mapV = S1.map[key],
                                                     !.ov = SetPending(key)]]
    IN  /\ CanCall
        /\ Commit(Gate(S2, t, 0))
        /\ Called("set")
        /\ called' = called \cup {key}
        /\ lastMut' = [lastMut EXCEPT ![key] = t]
        /\ lastSet' = [lastSet EXCEPT ![key] = t]

\* a delete that leaves the index entry
MapDeleteKept(m, key) == m

\* this.map.delete( key )
MapDelete(m, key) == [k \in DOMAIN m \ {key} |-> m[k]]

\* a delete of an absent key that registers a free block all the same
DeleteAbsentPushing(S, t, key) ==
    [S EXCEPT !.tasks[t] = [NoTask EXCEPT !.pc = "skip"],
              !.freeBlocks = PushFree(@, 16, 0),
              !.ret = [NoRet EXCEPT !.t = t, !.op = "delete", !.key = key]]

\* delete( key ) when this.map.get( key ) is undefined: it returns at once
DeleteAbsent(S, t, key) ==
    [S EXCEPT !.tasks[t] = [NoTask EXCEPT !.pc = "skip"],
              !.ret = [NoRet EXCEPT !.t = t, !.op = "delete", !.key = key]]

\* delete( key )
CallDelete(key) ==
    LET t == nOps + 1
        S0 == [Cur EXCEPT !.expectV[key] = NoValue]
        S1 == [S0 EXCEPT !.map = MapDelete(@, key),
                         !.tasks[t] = [NoTask EXCEPT !.op = "delete", !.key = key,
                                                     !.mapV = map[key]]]
    IN  /\ CanCall
        /\ IF key \in DOMAIN map THEN Commit(Gate(S1, t, 0))
           ELSE Commit(DeleteAbsent(S0, t, key))
        /\ Called("delete")
        /\ called' = called \ {key}
        /\ lastMut' = [lastMut EXCEPT ![key] = t]
        /\ UNCHANGED lastSet

\* clear()
CallClear ==
    LET t == nOps + 1
        S1 == [Cur EXCEPT !.map = EmptyMap,
                          !.expectV = [k \in Keys |-> NoValue],
                          !.tasks[t] = [NoTask EXCEPT !.op = "clear"]]
    IN  /\ CanCall
        /\ Commit(Gate(S1, t, 0))
        /\ Called("clear")
        /\ called' = {}
        /\ lastMut' = [k \in Keys |-> t]
        /\ UNCHANGED lastSet

\* loadDB()
CallLoadDB ==
    LET t == nOps + 1
        S1 == [Cur EXCEPT !.tasks[t] = [NoTask EXCEPT !.op = "load"]]
    IN  /\ CanCall
        /\ \E g \in Garbage : Commit(Gate(S1, t, g))
        /\ Called("load")
        /\ UNCHANGED <<called, lastMut, lastSet>>

\* get( key ) when values are not cached and the key is indexed
CallGet(key) ==
    LET t == nOps + 1
        S1 == [Cur EXCEPT !.tasks[t] = [NoTask EXCEPT !.op = "get", !.key = key,
                                                      !.mapV = map[key]]]
    IN  /\ CanCall
        /\ ~ inMemoryValues
        /\ key \in DOMAIN map
        /\ Commit(Gate(S1, t, 0))
        /\ Called("get")
        /\ UNCHANGED <<called, lastMut, lastSet>>

GarbageFor(t) == IF tasks[t].op = "load" THEN Garbage ELSE {0}

\* a call woken by the resolved promise tests this.inProgress again
Resume ==
    /\ jobs # <<>>
    /\ LET t == Head(jobs)
       IN  \E g \in GarbageFor(t) : Commit(Gate([Cur EXCEPT !.jobs = Tail(@)], t, g))
    /\ NoCall /\ UNCHANGED nFail

\* openDB() is done
OpenDone(t) ==
    /\ jobs = <<>>
    /\ tasks[t].pc = "open"
    /\ \E g \in GarbageFor(t) :
           Commit(Body([Cur EXCEPT !.fileOpen = TRUE, !.eof = Len(file)], t, g))
    /\ NoCall /\ UNCHANGED nFail

\* the write of insertEntryBuffer(), or updateDB()'s write in place, is done
WriteDone(t) ==
    /\ jobs = <<>>
    /\ tasks[t].pc = "write"
    /\ Commit(Release([Cur EXCEPT !.file = WriteAt(@, tasks[t].wbuf, tasks[t].pos),
                                  !.tasks[t].nw = @ + 1], t))
    /\ NoCall /\ UNCHANGED nFail

\* updateDB(): clearBlock() is done, insertEntryBuffer() follows
RelocateCleared(t) ==
    /\ jobs = <<>>
    /\ tasks[t].pc = "rel_clear"
    /\ Commit(insertEntryBuffer(clearBlockDone(Cur, t), t))
    /\ NoCall /\ UNCHANGED nFail

\* deleteDB(): clearBlock() is done
DeleteCleared(t) ==
    /\ jobs = <<>>
    /\ tasks[t].pc = "del_clear"
    /\ Commit(Release(clearBlockDone(Cur, t), t))
    /\ NoCall /\ UNCHANGED nFail

\* clearDB(): truncate() is done
Truncated(t) ==
    /\ jobs = <<>>
    /\ tasks[t].pc = "truncate"
    /\ Commit(Release([Cur EXCEPT !.file = <<>>, !.eof = 0, !.freeBlocks = EmptyMap,
                                  !.freed = <<>>], t))
    /\ NoCall /\ UNCHANGED nFail

\* the value retrieveDB() returns from a read of vs bytes at pos
Retrieved(f, pos, vs, g) ==
    LET bytes == ReadInto([i \in 1..vs |-> g], 0, vs, f, pos)
    IN  IF bufferValues THEN Buf(bytes) ELSE Str(Utf8Decode(bytes))

\* retrieveDB(): the read is done
ReadDone(t) ==
    /\ jobs = <<>>
    /\ tasks[t].pc = "read"
    /\ \E g \in Garbage :
           LET S1 == Release(Cur, t)
               vs == heap[tasks[t].mapV].vs
           IN  Commit([S1 EXCEPT !.ret.val = Retrieved(file, tasks[t].pos, vs, g)])
    /\ NoCall /\ UNCHANGED nFail

\* loadDB(): the reads of one block are done
LoadRead(t) ==
    /\ jobs = <<>>
    /\ tasks[t].pc = "load"
    /\ \E g \in Garbage : Commit(loadBlock(Cur, t, g))
    /\ NoCall /\ UNCHANGED nFail

\* open, read, write or truncate rejects
IoFail(t) ==
    /\ jobs = <<>>
    /\ tasks[t].pc \in Holding
    /\ nFail < MaxFail
    /\ nFail' = nFail + 1
    /\ Commit(Throw(Cur, t))
    /\ NoCall

\* the store built on file f
StoreOn(f) ==
    /\ bufferValues \in BOOLEAN
    /\ inMemoryValues \in BOOLEAN
    /\ initFile = f
    /\ file = f
    /\ fileOpen = FALSE
    /\ eof = NULL
    /\ map = EmptyMap
    /\ heap = EmptyMap
    /\ freeBlocks = EmptyMap
    /\ inProgress = FALSE
    /\ waiters = <<>>
    /\ jobs = <<>>
    /\ tasks = [t \in Tasks |-> NoTask]
    /\ nOps = 0
    /\ ld = NoLd
    /\ nFail = 0
    /\ called = {}
    /\ lastMut = [k \in Keys |-> 0]
    /\ lastSet = [k \in Keys |-> 0]
    /\ expectV = [k \in Keys |-> NoValue]
    /\ deleted = {}
    /\ loadCalls = 0
    /\ loadRace = FALSE
    /\ firstOp = "none"
    /\ ret = NoRet
    /\ freed = <<>>

InitOn(f) == StoreOn(f) /\ probe = NoProbe

Init == \E f \in InitFiles : InitOn(f)

Next ==
    \/ \E k \in Keys, i \in DOMAIN Values : CallSet(k, Values[i])
    \/ \E k \in Keys : CallDelete(k)
    \/ CallClear
    \/ CallLoadDB
    \/ \E k \in Keys : CallGet(k)
    \/ Resume
    \/ \E t \in Tasks : OpenDone(t)
    \/ \E t \in Tasks : WriteDone(t)
    \/ \E t \in Tasks : RelocateCleared(t)
    \/ \E t \in Tasks : DeleteCleared(t)
    \/ \E t \in Tasks : Truncated(t)
    \/ \E t \in Tasks : ReadDone(t)
    \/ \E t \in Tasks : LoadRead(t)
    \/ \E t \in Tasks : IoFail(t)

Spec == Init /\ [][Next]_vars

\* files an earlier session may have left: KeyA's block followed by a free block
\* of the same size, and KeyA's block cut short after its key
FileAFree == entryBuffer(KeyA, Str(<<49>>), NULL).buf \o <<FLAG_FREE_BLOCK>> \o Zeros(15)
FileACut == SubSeq(entryBuffer(KeyA, Str(<<49>>), NULL).buf, 1, 5)
FoundFiles == {FileAFree, FileACut}

InitFound == \E f \in FoundFiles : InitOn(f)

\* the store on a file that holds a free block, or that is truncated
SpecFound == InitFound /\ [][Next]_vars

\* ---------------------------------------------------------------- progress
\* the store when no file operation rejects: every open, read, write and
\* truncate that was started completes, and the event loop runs every resumed
\* call; the calls themselves are made or not
NextLive ==
    \/ \E k \in Keys, i \in DOMAIN Values : CallSet(k, Values[i])
    \/ \E k \in Keys : CallDelete(k)
    \/ CallClear
    \/ CallLoadDB
    \/ \E k \in Keys : CallGet(k)
    \/ Resume
    \/ \E t \in Tasks : OpenDone(t)
    \/ \E t \in Tasks : WriteDone(t)
    \/ \E t \in Tasks : RelocateCleared(t)
    \/ \E t \in Tasks : DeleteCleared(t)
    \/ \E t \in Tasks : Truncated(t)
    \/ \E t \in Tasks : ReadDone(t)
    \/ \E t \in Tasks : LoadRead(t)

\* a resumed call is left to run, or a file operation is under way: the
\* guards of Resume and of the steps that end a file operation
CompletesEnabled == jobs # <<>> \/ \E t \in Tasks : tasks[t].pc \in Holding

\* weak fairness of those steps together, written with its two sides spelled
\* out: they are enabled exactly when CompletesEnabled holds, and they are
\* the steps of NextLive that make no call
Fairness == []<>(~ CompletesEnabled) \/ []<><<nOps' = nOps>>_vars

SpecLive == Init /\ [][NextLive]_vars /\ Fairness

\* ---------------------------------------------------------- block sizing
\* blockSize( n ) and blockSizeToFlags( n , f ) called on a store, for the byte
\* counts up to MaxSize and every byte f
InitSizing ==
    /\ StoreOn(<<>>)
    /\ probe \in [n : 1..MaxSize, f : 0..255, size : {NULL}, flags : {NULL}]

ApplyBlockSize ==
    /\ probe.size = NULL
    /\ probe' = [probe EXCEPT !.size = blockSize(probe.n, 1),
                              !.flags = blockSizeToFlags(probe.n, 1, probe.f)]
    /\ UNCHANGED <<bufferValues, inMemoryValues, file, fileOpen, eof, map, heap, freeBlocks,
                   inProgress, waiters, jobs, tasks, nOps, ld, nFail, initFile, called,
                   lastMut, lastSet, expectV, deleted, loadCalls, loadRace, firstOp, ret,
                   freed>>

NextSizing == ApplyBlockSize

SpecSizing == InitSizing /\ [][NextSizing]_vars

\* ------------------------------------------------------- what callers see
\* has( key )
Has(k) == k \in DOMAIN map

\* the size property
Size == Cardinality(DOMAIN map)

\* what get( key ) gives: the cached value, or what retrieveDB() reads from the file
\* as it is now (g fills the bytes a short read leaves); NoValue is undefined
GetNow(k, g) ==
    IF ~ Has(k) THEN NoValue
    ELSE IF inMemoryValues THEN heap[map[k]].v
    ELSE IF heap[map[k]].o = NULL \/ heap[map[k]].vo = NULL \/ heap[map[k]].vs = NULL
         THEN [t |-> "throws", d |-> <<>>]
    ELSE Retrieved(file, heap[map[k]].o + heap[map[k]].vo, heap[map[k]].vs, g)

\* no call is waiting, running or left broken, and the slot is free
Quiescent ==
    /\ ~ inProgress
    /\ jobs = <<>>
    /\ \A t \in Tasks : tasks[t].pc \in {"none", "done", "skip"}

\* the calls that claimed the slot and did not release it
Slot == {t \in Tasks : tasks[t].pc \in Holding \cup {"failed", "beyond"}}

\* the store was built on an empty file, or loadDB() was the first call on it
ProperOpen == initFile = <<>> \/ firstOp = "load"

\* ... and no loadDB() was called later or overlapped another call
Clean == ProperOpen /\ ~ loadRace

\* ------------------------------------------------------ the file as blocks
\* the offsets loadDB()'s loop visits on file f from offset o on; a flags byte
\* whose size is beyond the sizes modelled ends the scan
RECURSIVE BlockStarts(_, _)
BlockStarts(f, o) ==
    IF o >= Len(f) THEN {}
    ELSE IF f[o + 1] % 32 > MaxExp - 5 THEN {o}
    ELSE {o} \cup BlockStarts(f, o + extractBlockSize(f[o + 1]))

SizeAt(f, o) == extractBlockSize(f[o + 1])

FreeAt(f, o) == HasFlag(f[o + 1], FLAG_FREE_BLOCK)

\* the key of the live block at o, as loadDB() slices and decodes it
KeyAt(f, o) ==
    IF HasFlag(f[o + 1], FLAG_LARGE_LPS)
    THEN Utf8Decode(SubBytes(f, o + 7, o + 7 + f[o + 2] * 256 + f[o + 3]))
    ELSE Utf8Decode(SubBytes(f, o + 4, o + 4 + f[o + 2]))

\* every block the scan visits lies within the file: the scan ends at its end
Partition(f) ==
    \A o \in BlockStarts(f, 0) : f[o + 1] % 32 <= MaxExp - 5 /\ o + SizeAt(f, o) <= Len(f)

\* the ( size , offset ) pairs of registry fb
RegistryPairs(fb) == UNION {{<<sz, o>> : o \in Range(fb[sz])} : sz \in DOMAIN fb}

\* the keys whose index entry points at offset o
KeysAt(o) == {k \in DOMAIN map : heap[map[k]].o = o}

\* loadDB() run to its end, from state S of its loop
RECURSIVE LoadRun(_, _)
LoadRun(S, g) == IF S.tasks[1].pc = "load" THEN LoadRun(loadBlock(S, 1, g), g) ELSE S

\* a fresh store on file f after its loadDB()
Reopened(f, g) ==
    LoadRun(loadDB([Cur EXCEPT !.file = f, !.fileOpen = TRUE, !.eof = Len(f),
                               !.map = EmptyMap, !.heap = EmptyMap,
                               !.freeBlocks = EmptyMap, !.inProgress = TRUE,
                               !.waiters = <<>>, !.jobs = <<>>,
                               !.tasks = [t \in Tasks |-> IF t = 1
                                                          THEN [NoTask EXCEPT !.op = "load"]
                                                          ELSE NoTask]], 1, g), g)

\* what get( k ) gives on store R, a record as Reopened makes it
GetOn(R, k, g) ==
    IF k \notin DOMAIN R.map THEN NoValue
    ELSE IF inMemoryValues THEN R.heap[R.map[k]].v
    ELSE Retrieved(R.file, R.heap[R.map[k]].o + R.heap[R.map[k]].vo, R.heap[R.map[k]].vs, g)


\* ------------------------------------------------------------------ claims
\* C1: at most one call is between claiming the slot and releasing it, and the
\* slot is claimed exactly while one is.
C1_MutualExclusion ==
    /\ Cardinality(Slot) <= 1
    /\ inProgress <=> Slot # {}

\* C1 witness: one call holds the slot (its write is pending) while another waits.
C1_Witness ==
    \E t, u \in Tasks : tasks[t].pc = "write" /\ tasks[u].pc = "wait" /\ inProgress

C3_ReleasedOnError == \A t \in Tasks : tasks[t].pc = "failed" => ~ inProgress

\* C3: a call failed while it held the slot, another one waits, and the slot is
\* still claimed.
C3_SlotHeldAfterFailure ==
    \E t, u \in Tasks : tasks[t].pc = "failed" /\ tasks[u].pc = "wait" /\ inProgress

\* C4: after set( k , v ) returned with no later set( k ), delete( k ) or clear()
\* call, has( k ) is true and get( k ) is v as normalized.
C4_SetThenGet ==
    (Quiescent /\ ProperOpen) =>
        \A k \in Keys : expectV[k] # NoValue =>
            Has(k) /\ \A g \in Garbage : GetNow(k, g) = expectV[k]

\* C4 on the stores where no loadDB() was called after another call, or
\* overlapped one: there the property holds.
C4_WithoutLoadRace ==
    Clean => \A k \in Keys : expectV[k] # NoValue =>
                 Has(k) /\ (Quiescent => \A g \in Garbage : GetNow(k, g) = expectV[k])

\* C4: the set of KeyA returned while a loadDB() was in flight, and get( KeyA )
\* gives another value than the one set.
C4_LostSet ==
    /\ Quiescent /\ firstOp = "load" /\ nOps = 2
    /\ expectV[KeyA] # NoValue
    /\ \E g \in Garbage : GetNow(KeyA, g) # expectV[KeyA]

\* the bytes of f from offset o, for len bytes, are a free block of that size and zeros
IsFreeBlock(f, o, len) ==
    /\ o + len <= Len(f)
    /\ HasFlag(f[o + 1], FLAG_FREE_BLOCK)
    /\ f[o + 1] % 32 < MaxExp
    /\ extractBlockSize(f[o + 1]) = len

Registered(o, len) == len \in DOMAIN freeBlocks /\ o \in Range(freeBlocks[len])

\* C5: after delete( k ) returned with no later set( k ) call, has( k ) is false and
\* get( k ) is undefined; when it returns, the block that held k is a free block
\* registered under its size.
C5_DeleteThenAbsent ==
    ProperOpen =>
        /\ \A k \in deleted : ~ Has(k) /\ \A g \in Garbage : GetNow(k, g) = NoValue
        /\ (ret.op = "delete" /\ ret.o # NULL) =>
               IsFreeBlock(file, ret.o, ret.s) /\ Registered(ret.o, ret.s)

\* C5 on the stores where no loadDB() was called after another call, or
\* overlapped one: there the property holds.
C5_WithoutLoadRace ==
    Clean =>
        /\ \A k \in deleted : ~ Has(k) /\ \A g \in Garbage : GetNow(k, g) = NoValue
        /\ (ret.op = "delete" /\ ret.o # NULL) =>
               IsFreeBlock(file, ret.o, ret.s) /\ Registered(ret.o, ret.s)

\* C5: delete( KeyA ) returned, no set followed, and the index holds KeyA.
C5_DeletedKeyIndexed == Quiescent /\ ProperOpen /\ KeyA \in deleted /\ Has(KeyA)

\* C6: on a store that only saw set, delete and clear calls, the index holds
\* exactly the keys set and not deleted or cleared since, in call order; so size
\* is their number and a set of an indexed key leaves it as it is.
C6_SizeCountsKeys ==
    loadCalls = 0 => DOMAIN map = called /\ Size = Cardinality(called)

\* C6 witness: three calls returned, one key was set and deleted, one is left.
C6_Witness ==
    /\ Quiescent /\ loadCalls = 0 /\ nOps = 3
    /\ called = {KeyB} /\ KeyA \in deleted /\ Size = 1

\* C7: once a sequence of set, delete and clear calls has completed on a store
\* (built on an empty file, or loaded first), loadDB() on a fresh store over the
\* same file gives an index with the same keys and the same get results (the
\* same o, s, vo, vs when values are not cached) and a registry that holds
\* exactly the free blocks of the file.
C7_ReopenRoundTrip ==
    (Quiescent /\ Clean /\ fileOpen) =>
        \A g \in Garbage :
            LET R == Reopened(file, g)
            IN  /\ DOMAIN R.map = DOMAIN map
                /\ \A k \in DOMAIN map :
                       /\ GetOn(R, k, g) = GetNow(k, g)
                       /\ ~ inMemoryValues => R.heap[R.map[k]] = heap[map[k]]
                /\ RegistryPairs(R.freeBlocks)
                       = {<<SizeAt(file, o), o>> :
                              o \in {b \in BlockStarts(file, 0) : FreeAt(file, b)}}
                /\ RegistryPairs(R.freeBlocks) = RegistryPairs(freeBlocks)

\* C7 witness: three calls completed and left a file with a live block read
\* back as KeyB's and a free block.
C7_Witness ==
    /\ Quiescent /\ Clean /\ nOps = 3 /\ loadCalls = 0
    /\ DOMAIN map = {KeyB}
    /\ RegistryPairs(freeBlocks) # {}
    /\ \A g \in Garbage : DOMAIN Reopened(file, g).map = {KeyB}

\* C8: when no call is in flight, every index entry points at a live block of
\* the file that starts at o, has size s and carries the entry's key, and every
\* live block is pointed at by exactly one index entry.
C8_IndexFileAgreement ==
    (Quiescent /\ ProperOpen /\ fileOpen) =>
        /\ \A k \in DOMAIN map :
               /\ heap[map[k]].o \in BlockStarts(file, 0)
               /\ ~ FreeAt(file, heap[map[k]].o)
               /\ SizeAt(file, heap[map[k]].o) = heap[map[k]].s
               /\ KeyAt(file, heap[map[k]].o) = k
        /\ \A o \in BlockStarts(file, 0) :
               ~ FreeAt(file, o) => Cardinality(KeysAt(o)) = 1

\* C8 on the stores where no loadDB() was called after another call, or
\* overlapped one: there the property holds.
C8_WithoutLoadRace ==
    (Quiescent /\ Clean /\ fileOpen) =>
        /\ \A k \in DOMAIN map :
               /\ heap[map[k]].o \in BlockStarts(file, 0)
               /\ ~ FreeAt(file, heap[map[k]].o)
               /\ SizeAt(file, heap[map[k]].o) = heap[map[k]].s
               /\ KeyAt(file, heap[map[k]].o) = k
        /\ \A o \in BlockStarts(file, 0) :
               ~ FreeAt(file, o) => Cardinality(KeysAt(o)) = 1

\* C8: no call is in flight and a live block of the file has no index entry.
C8_OrphanBlock ==
    /\ Quiescent /\ ProperOpen /\ fileOpen
    /\ \E o \in BlockStarts(file, 0) : ~ FreeAt(file, o) /\ KeysAt(o) = {}

\* C9: when no call is in flight, every registry entry ( sz , o ) is a block of
\* the file that starts at o, ends by eof, is free with size sz and has no index
\* entry; and every free block of the file is in the registry under its size.
C9_RegistryFileAgreement ==
    (Quiescent /\ ProperOpen /\ fileOpen) =>
        /\ \A e \in RegistryPairs(freeBlocks) :
               /\ e[2] \in BlockStarts(file, 0)
               /\ e[2] + e[1] <= eof
               /\ FreeAt(file, e[2])
               /\ SizeAt(file, e[2]) = e[1]
               /\ KeysAt(e[2]) = {}
        /\ \A o \in BlockStarts(file, 0) :
               FreeAt(file, o) => <<SizeAt(file, o), o>> \in RegistryPairs(freeBlocks)

\* C9 on the stores where no loadDB() was called after another call, or
\* overlapped one: there the property holds.
C9_WithoutLoadRace ==
    (Quiescent /\ Clean /\ fileOpen) =>
        /\ \A e \in RegistryPairs(freeBlocks) :
               /\ e[2] \in BlockStarts(file, 0)
               /\ e[2] + e[1] <= eof
               /\ FreeAt(file, e[2])
               /\ SizeAt(file, e[2]) = e[1]
               /\ KeysAt(e[2]) = {}
        /\ \A o \in BlockStarts(file, 0) :
               FreeAt(file, o) => <<SizeAt(file, o), o>> \in RegistryPairs(freeBlocks)

\* C9: no call is in flight and a block of the registry has an index entry.
C9_RegisteredBlockIndexed ==
    /\ Quiescent /\ ProperOpen /\ fileOpen
    /\ \E e \in RegistryPairs(freeBlocks) : KeysAt(e[2]) # {}

\* C10: when no call is in flight, the blocks scanned from offset 0, each from
\* the end of the one before, end exactly at the end of the file, and eof is the
\* sum of their sizes.
C10_GapFreePartition ==
    (Quiescent /\ ProperOpen /\ fileOpen) =>
        /\ Partition(file)
        /\ eof = Len(file)

\* C10 on the stores where no loadDB() was called after another call, or
\* overlapped one: there the property holds.
C10_WithoutLoadRace ==
    (Quiescent /\ Clean /\ fileOpen) => Partition(file) /\ eof = Len(file)

\* C10: no call is in flight and the file holds a block beyond eof.
C10_BlockBeyondEof == Quiescent /\ ProperOpen /\ fileOpen /\ eof < Len(file)

\* the registry stack of size B, empty when there is none
Stack(fb, B) == IF B \in DOMAIN fb THEN fb[B] ELSE <<>>

\* when offset o was last freed since the last clear: 0 if it was not
LastFreed(o) ==
    IF o \in Range(freed) THEN CHOOSE i \in 1..Len(freed) :
                                   freed[i] = o /\ \A j \in (i + 1)..Len(freed) : freed[j] # o
    ELSE 0

\* call t places a block in this step: insertEntryBuffer() runs, for an insert
\* or for a relocation
Placed(t) ==
    /\ tasks'[t].pc = "write" /\ tasks[t].pc # "write"
    /\ tasks'[t].op = "insert" \/ tasks[t].pc = "rel_clear"

\* C11: a block of size B is placed at the offset on top of the registry stack
\* of size B when that stack is not empty (the offset is popped, eof is
\* unchanged, and on a store without a later loadDB() no registered offset of
\* that size was freed more recently); else at eof, which advances by B. The
\* stacks of the other sizes lose no offset.
C11_PlacementPolicy ==
    [][\A t \in Tasks : Placed(t) =>
        /\ IF Stack(freeBlocks, Len(tasks'[t].wbuf)) # <<>>
           THEN /\ tasks'[t].pos = Stack(freeBlocks, Len(tasks'[t].wbuf))
                                       [Len(Stack(freeBlocks, Len(tasks'[t].wbuf)))]
                /\ Stack(freeBlocks', Len(tasks'[t].wbuf))
                       = SubSeq(Stack(freeBlocks, Len(tasks'[t].wbuf)), 1,
                                Len(Stack(freeBlocks, Len(tasks'[t].wbuf))) - 1)
                /\ eof' = tasks'[t].eof0
                /\ Clean => \A o \in Range(Stack(freeBlocks, Len(tasks'[t].wbuf))) :
                                LastFreed(o) <= LastFreed(tasks'[t].pos)
           ELSE /\ tasks'[t].pos = tasks'[t].eof0
                /\ eof' = tasks'[t].eof0 + Len(tasks'[t].wbuf)
                /\ Stack(freeBlocks', Len(tasks'[t].wbuf)) = <<>>
        /\ \A sz \in DOMAIN freeBlocks : sz # Len(tasks'[t].wbuf) =>
               /\ sz \in DOMAIN freeBlocks'
               /\ Len(freeBlocks'[sz]) >= Len(freeBlocks[sz])
               /\ SubSeq(freeBlocks'[sz], 1, Len(freeBlocks[sz])) = freeBlocks[sz]
      ]_vars

\* C11 witness: two free blocks of size 16 are registered, the one at 16 found
\* by loadDB() and the one at 0 freed since; the insert of KeyB is placed at 0,
\* the one at 16 stays registered and eof is as it was.
C11_Witness ==
    /\ initFile = FileAFree /\ Clean
    /\ \E t \in Tasks : /\ tasks[t].op = "insert" /\ tasks[t].pc = "write"
                        /\ tasks[t].key = KeyB /\ tasks[t].pos = 0
                        /\ tasks[t].fb0 = (16 :> <<16, 0>>)
    /\ freeBlocks = (16 :> <<16>>)
    /\ eof = 32

\* entrySize of entryBuffer(): the bytes the record of call tk takes
RecordSize(tk) ==
    1 + (IF Len(Utf8Encode(tk.key)) > 255 \/ Len(ValueBytes(tk.val)) > 65535 THEN 6 ELSE 3)
      + Len(Utf8Encode(tk.key)) + Len(ValueBytes(tk.val))

\* the set that returned in the last step found its key in a block too small
\* for the new record
Outgrown ==
    /\ ret.op = "update"
    /\ ret.tk.o0 # NULL /\ ret.tk.s0 # NULL
    /\ RecordSize(ret.tk) > ret.tk.s0

\* the block size chosen for a record that has to move
GrownSize(tk) ==
    blockSize(RecordSize(tk) * INSERT_SIZE_OPTIMIZATION_NUM, INSERT_SIZE_OPTIMIZATION_DEN)

\* what C12 promises at the return of such a set
Relocated ==
    /\ lastMut[ret.key] = ret.t =>
           /\ Has(ret.key)
           /\ \A g \in Garbage : GetNow(ret.key, g) = ret.tk.val
           /\ heap[map[ret.key]].o # ret.tk.o0
           /\ heap[map[ret.key]].s = GrownSize(ret.tk)
    /\ IsFreeBlock(file, ret.tk.o0, ret.tk.s0)
    /\ Registered(ret.tk.o0, ret.tk.s0)
    /\ IF Stack(ret.tk.fb0, GrownSize(ret.tk)) # <<>>
       THEN eof = ret.tk.eof0
       ELSE eof = ret.tk.eof0 + GrownSize(ret.tk)

\* C12: when set( k, v2 ) returns and the record of v2 did not fit in the block
\* of k (offset o, size S), then, k not being set, deleted or cleared by a later
\* call, get( k ) is v2 and the index entry of k points at another block, of the
\* newly chosen size; the block at o is free and registered under S; eof grew by
\* the new size, or not at all when a free block of that size was reused.
C12_RelocationOnGrowth == (ProperOpen /\ Outgrown) => Relocated

\* C12 on the stores where no loadDB() was called after another call, or
\* overlapped one: there the property holds.
C12_WithoutLoadRace == (Clean /\ Outgrown) => Relocated

\* C12: the relocating set of KeyA returned, no later call touched KeyA, and
\* get( KeyA ) is not the value set: the index entry is the one a loadDB() in
\* flight wrote over it, and points at the freed block.
C12_StaleEntryAfterRelocation ==
    /\ ProperOpen /\ Outgrown /\ ret.key = KeyA /\ lastMut[KeyA] = ret.t
    /\ Has(KeyA)
    /\ \E g \in Garbage : GetNow(KeyA, g) # ret.tk.val
    /\ heap[map[KeyA]].o = ret.tk.o0
    /\ Registered(ret.tk.o0, ret.tk.s0)

\* clear() returned in the last step and no set was called after it was called
ClearReturned == ret.op = "clear" /\ \A k \in Keys : lastSet[k] < ret.t

\* the store and its file are empty, and so is a fresh store loaded from the file
Emptied ==
    /\ DOMAIN map = {} /\ Size = 0
    /\ Len(file) = 0
    /\ eof = 0
    /\ RegistryPairs(freeBlocks) = {}
    /\ \A g \in Garbage : DOMAIN Reopened(file, g).map = {}

\* C13: when clear() returns, no set having been called after it was called,
\* the index is empty, the file has length 0, eof is 0, the registry is empty
\* and a fresh store that loads the file has size 0, whatever was pending or in
\* flight when clear() was called.
C13_ClearEmpties == ClearReturned => Emptied

\* C13 on the stores where no loadDB() was called after another call, or
\* overlapped one: there the property holds.
C13_WithoutLoadRace == (Clean /\ ClearReturned) => Emptied

\* C13: clear() was called while the first call, a loadDB(), was reading the
\* file; it returned, and the index holds the key the load read.
C13_KeyAfterClear ==
    /\ ClearReturned /\ firstOp = "load" /\ nOps = 2
    /\ Has(KeyA) /\ Size = 1
    /\ Len(file) = 0 /\ eof = 0

\* what has(), size, the keys and, with inMemoryValues, get() and the values show
Observed == [k \in DOMAIN map |-> IF inMemoryValues THEN heap[map[k]].v ELSE NoValue]

\* C14: the synchronous readers do not see the effect of a set, delete or clear
\* whose file operation has not completed: the step that calls one and leaves
\* it waiting for the slot, or holding it with its file operation under way,
\* changes nothing of what has(), size, the keys and the cached get() show.
C14_ReadersSeeCompleted ==
    [][(nOps' = nOps + 1 /\ tasks'[nOps'].pc \in Waiting \cup Holding)
           => Observed' = Observed]_vars

\* C14: set( KeyA ) was called and waits for the slot; no block is written for
\* KeyA (its entry has no offset), and has( KeyA ) is true.
C14_UnwrittenKeyVisible ==
    \E t \in Tasks :
        /\ tasks[t].op = "insert" /\ tasks[t].key = KeyA /\ tasks[t].pc \in Waiting
        /\ Has(KeyA) /\ map[KeyA] = tasks[t].mapV
        /\ heap[map[KeyA]].o = NULL

\* delete( k ) is called in this step
DeleteCalled(k) ==
    /\ nOps' = nOps + 1
    /\ \/ tasks'[nOps'].op = "delete" /\ tasks'[nOps'].key = k
       \/ ret'.t = nOps' /\ ret'.op = "delete" /\ ret'.key = k

\* C15: delete( k ) of a key absent from the index returns at once: it does not
\* fail, does not wait for the slot or take it, writes nothing, and leaves the
\* index, the registry and eof as they are; so a second delete( k ) changes
\* nothing and pushes no offset.
C15_DeleteIdempotent ==
    [][\A k \in Keys : (DeleteCalled(k) /\ ~ Has(k)) =>
           /\ ret'.t = nOps' /\ tasks'[nOps'].pc = "skip"
           /\ UNCHANGED <<file, fileOpen, eof, map, heap, freeBlocks, freed,
                          inProgress, waiters, jobs, nFail>>
           /\ \A t \in 1..nOps : tasks'[t] = tasks[t]
      ]_vars

\* C15 witness: delete( KeyA ) returned and freed the block at 0; delete( KeyA )
\* was called again and returned at once, and the offset is registered once.
C15_Witness ==
    /\ Clean /\ Quiescent /\ KeyA \in deleted
    /\ ret.op = "delete" /\ ret.key = KeyA /\ tasks[ret.t].pc = "skip"
    /\ freeBlocks = (16 :> <<0>>)

\* the block sizes: 16 and 24 times a power of two
Ladder == {16 * Pow2(e) : e \in 0..MaxExp - 5} \cup {24 * Pow2(e) : e \in 0..MaxExp - 5}

\* C16: blockSize( n ) is the smallest value of the ladder that is >= n, and the
\* flags byte of blockSizeToFlags( n , f ) decodes through extractBlockSize() to
\* that size and has the FREE and LARGE_LPS bits of f.
C16_BlockSizing ==
    probe.size # NULL =>
        /\ probe.size \in Ladder
        /\ probe.size >= probe.n
        /\ \A b \in Ladder : b >= probe.n => b >= probe.size
        /\ probe.flags \in 0..255
        /\ extractBlockSize(probe.flags) = probe.size
        /\ HasFlag(probe.flags, FLAG_FREE_BLOCK) = HasFlag(probe.f, FLAG_FREE_BLOCK)
        /\ HasFlag(probe.flags, FLAG_LARGE_LPS) = HasFlag(probe.f, FLAG_LARGE_LPS)

\* C16 witness: 17 bytes get the half step 24, and the flags of a free, large
\* block with all its size bits set come back with the size bits of 24.
C16_Witness ==
    /\ probe.n = 17 /\ probe.f = 255
    /\ probe.size = 24
    /\ probe.flags = FLAG_FREE_BLOCK + FLAG_LARGE_LPS + FLAG_PLUS_HALF_SIZE

\* the first block of file f declares a size that runs past the end of f
CutShort(f) == Len(f) > 0 /\ SizeAt(f, 0) > Len(f)

\* C17: a loadDB() that meets a block whose declared size runs past the end of
\* the file ends with an error: it does not return normally, and no index
\* entry is made for that block.
C17_TruncatedLoadFails ==
    (firstOp = "load" /\ nOps = 1 /\ CutShort(initFile)) =>
        /\ tasks[1].pc # "done"
        /\ DOMAIN map = {}

\* C17: loadDB() on the file cut after the key of its only block returned
\* normally, and the index holds KeyA with the offset and size of that block.
C17_CutBlockIndexed ==
    /\ firstOp = "load" /\ nOps = 1 /\ initFile = FileACut
    /\ Quiescent /\ tasks[1].pc = "done"
    /\ Has(KeyA) /\ heap[map[KeyA]].o = 0 /\ heap[map[KeyA]].s = 16
    /\ Len(file) = 5

\* the set that returned in the last step found its key in a block that holds
\* the new record
Fits ==
    /\ ret.op = "update"
    /\ ret.tk.o0 # NULL /\ ret.tk.s0 # NULL
    /\ RecordSize(ret.tk) <= ret.tk.s0

\* C18: when set( k, v ) on an existing key returns and the record of v is not
\* larger than the size s of the block of k, the entry has the offset o and the
\* size s it had, eof and the registry are as the call found them, and the call
\* made one write: of s bytes, at o.
C18_InPlaceUpdate ==
    Fits =>
        /\ ret.o = ret.tk.o0 /\ ret.s = ret.tk.s0
        /\ eof = ret.tk.eof0
        /\ freeBlocks = ret.tk.fb0
        /\ ret.tk.nw = 1
        /\ ret.tk.pos = ret.tk.o0 /\ Len(ret.tk.wbuf) = ret.tk.s0

\* C18 witness: KeyA, stored with a 13-byte value in a block of 24, is set to a
\* one-byte value, and the set returned.
C18_Witness ==
    /\ Fits /\ ret.key = KeyA
    /\ ret.tk.s0 = 24 /\ RecordSize(ret.tk) = 6
    /\ ret.o = ret.tk.o0 /\ ret.s = 24

\* this.eof before the step, as openDB() sets it when the step opens the file
EofBefore == IF eof = NULL THEN Len(file) ELSE eof

\* C19: eof never decreases, except in the step of clearDB() that sets it to 0;
\* every other step keeps it, or adds to it the size of the one block the step
\* appends at the former eof.
C19_EofMonotonic ==
    [][fileOpen' =>
          \/ eof' = EofBefore
          \/ \E t \in Tasks : /\ tasks[t].pc = "truncate" /\ ret'.op = "clear" /\ ret'.t = t
                               /\ eof' = 0
          \/ \E t \in Tasks : /\ Placed(t)
                               /\ tasks'[t].pos = EofBefore
                               /\ Len(tasks'[t].wbuf) \in Ladder
                               /\ eof' = EofBefore + Len(tasks'[t].wbuf)
      ]_vars

\* C19 witness: an insert appends a block of 24 at eof 16, and eof is 40; the
\* registry holds a free block that a delete left, and eof did not move for it.
C19_Witness ==
    /\ eof = 40
    /\ freeBlocks = (16 :> <<0>>)
    /\ \E t \in Tasks : /\ tasks[t].op = "insert" /\ tasks[t].pc = "write"
                        /\ tasks[t].eof0 = 16 /\ tasks[t].pos = 16
                        /\ Len(tasks[t].wbuf) = 24

\* the index: every key with the fields of its entry
Entries == [k \in DOMAIN map |-> heap[map[k]]]

\* the step adds the entry of a key that had none, and changes nothing else of
\* the index and the registry
AddsNewKey ==
    /\ freeBlocks' = freeBlocks
    /\ \E k \in Keys \ DOMAIN map :
           /\ DOMAIN map' = DOMAIN map \cup {k}
           /\ \A j \in DOMAIN map : Entries'[j] = Entries[j]

\* C20: the index and the registry change only in the steps of the operation
\* that holds the slot, but for set on a new key, which adds its entry before:
\* a call made while another operation holds the slot changes neither, unless
\* it is such a set, and any other step that changes one of them is a step of
\* the holder.
C20_MutatedInsideGate ==
    [][(Entries' # Entries \/ freeBlocks' # freeBlocks) =>
           IF nOps' = nOps + 1
           THEN inProgress => AddsNewKey
           ELSE \E t \in Tasks : /\ tasks[t].pc \in Holding \cup Waiting
                                 /\ tasks'[t] # tasks[t]
                                 /\ tasks'[t].pc \in Holding \cup {"done", "failed", "beyond"}
      ]_vars

\* C20: an operation holds the slot, delete( KeyA ) waits for it, and KeyA has
\* left the index.
C20_DeletedOutsideGate ==
    \E t, u \in Tasks :
        /\ tasks[t].pc \in Holding
        /\ tasks[u].op = "delete" /\ tasks[u].key = KeyA /\ tasks[u].pc \in Waiting
        /\ lastMut[KeyA] = u
        /\ ~ Has(KeyA)

\* the bytes the record of the live block at o takes, by the lengths in its header
RecordLength(f, o) ==
    IF HasFlag(f[o + 1], FLAG_LARGE_LPS)
    THEN 7 + (f[o + 2] * 256 + f[o + 3])
           + ((f[o + 4] * 256 + f[o + 5]) * 256 + f[o + 6]) * 256 + f[o + 7]
    ELSE 4 + f[o + 2] + (f[o + 3] * 256 + f[o + 4])

\* the bytes of f after offset from and up to offset to are zero
ZeroBetween(f, from, to) == \A i \in (from + 1)..Min(to, Len(f)) : f[i] = 0

\* every block of f is zero past its record if live, past its flags byte if free
ZeroPadded(f) ==
    \A o \in BlockStarts(f, 0) :
        /\ f[o + 1] % 32 <= MaxExp - 5
        /\ IF FreeAt(f, o) THEN ZeroBetween(f, o + 1, o + SizeAt(f, o))
           ELSE /\ RecordLength(f, o) <= SizeAt(f, o)
                /\ ZeroBetween(f, o + RecordLength(f, o), o + SizeAt(f, o))

\* C21: on a store that was built on an empty file or loaded once before any
\* other call, after any set, delete and clear calls, every live block of the
\* file is zero past the end of its record and every free block is zero past
\* its flags byte: nothing of an earlier occupant is left in a block.
C21_NoResidue == (Clean /\ fileOpen) => ZeroPadded(file)

\* C21 witness: KeyA, stored with a 13-byte value in a block of 24, was set to
\* a one-byte value in place; the block holds the 6 bytes of the new record
\* and 18 zeros, and a block freed before it holds its flags byte and zeros.
C21_Witness ==
    /\ Clean /\ Quiescent /\ Fits /\ ret.key = KeyA
    /\ ret.tk.s0 = 24 /\ RecordSize(ret.tk) = 6
    /\ SubBytes(file, ret.o + 6, ret.o + 24) = Zeros(18)
    /\ \E o \in BlockStarts(file, 0) : FreeAt(file, o)

\* the value of the live block at o, as loadDB() slices and decodes it
ValueAt(f, o) ==
    LET large == HasFlag(f[o + 1], FLAG_LARGE_LPS)
        from == IF large THEN o + 7 + f[o + 2] * 256 + f[o + 3] ELSE o + 4 + f[o + 2]
        bytes == SubBytes(f, from, o + RecordLength(f, o))
    IN  IF bufferValues THEN Buf(bytes) ELSE Str(Utf8Decode(bytes))

\* C22: with inMemoryValues, on a store that saw set, delete and clear calls in
\* any interleaving (built on an empty file, or loaded first), once all calls
\* have returned the value cached in the index entry of every key is the value
\* in the live block the entry points at, and a fresh store loaded from the
\* file gives the same get( k ).
C22_CacheCoherence ==
    (inMemoryValues /\ Clean /\ Quiescent /\ fileOpen) =>
        /\ \A k \in DOMAIN map :
               /\ heap[map[k]].o \in BlockStarts(file, 0)
               /\ ~ FreeAt(file, heap[map[k]].o)
               /\ KeyAt(file, heap[map[k]].o) = k
               /\ ValueAt(file, heap[map[k]].o) = heap[map[k]].v
        /\ \A g \in Garbage :
               LET R == Reopened(file, g)
               IN  \A k \in DOMAIN map : GetOn(R, k, g) = heap[map[k]].v

\* C22 witness: two sets of KeyA with different values were called on an empty
\* store, the second (13 bytes, which moved the entry) before the first
\* returned; both returned, and the cached value and the block hold the value
\* of the second.
C22_Witness ==
    /\ inMemoryValues /\ Clean /\ Quiescent /\ nOps = 2 /\ firstOp = "set"
    /\ ret.op = "update" /\ ret.key = KeyA /\ ret.tk.ov
    /\ Has(KeyA)
    /\ heap[map[KeyA]].v = ret.tk.val
    /\ ValueAt(file, heap[map[KeyA]].o) = ret.tk.val
    /\ RecordSize(ret.tk) = 18 /\ Len(file) = 40

CalledDuringLoad ==
    /\ Quiescent /\ fileOpen
    /\ firstOp = "load" /\ loadCalls = 1 /\ loadRace

\* the live blocks of file f
LiveBlocks(f) == {o \in BlockStarts(f, 0) : ~ FreeAt(f, o)}

\* clear() is the latest call that touched the keys
ClearedLast == \E t \in 1..nOps : \A k \in Keys : lastMut[k] = t /\ lastSet[k] < t

\* C24: when calls were made while loadDB() was scanning the file, once all
\* have returned the index agrees with the file (every entry points at a live
\* block with its key and its value, every live block has one entry, no key
\* has two live blocks), get( k ) is the value of the latest set, and size is
\* 0 after a clear.
C24_LoadKeepsMutations ==
    CalledDuringLoad =>
        /\ \A k \in DOMAIN map :
               /\ heap[map[k]].o \in LiveBlocks(file)
               /\ KeyAt(file, heap[map[k]].o) = k
               /\ inMemoryValues => ValueAt(file, heap[map[k]].o) = heap[map[k]].v
        /\ \A o \in LiveBlocks(file) : Cardinality(KeysAt(o)) = 1
        /\ \A o, q \in LiveBlocks(file) : KeyAt(file, o) = KeyAt(file, q) => o = q
        /\ \A k \in Keys : expectV[k] # NoValue =>
               Has(k) /\ \A g \in Garbage : GetNow(k, g) = expectV[k]
        /\ ClearedLast => Size = 0

\* C24: set( KeyA ) was called while loadDB() was reading the block of KeyA;
\* both returned, and the file holds two live blocks of KeyA.
C24_TwoLiveBlocks ==
    /\ CalledDuringLoad /\ nOps = 2
    /\ \E o, q \in LiveBlocks(file) :
           o # q /\ KeyAt(file, o) = KeyA /\ KeyAt(file, q) = KeyA

\* the offsets of registry fb, stack after stack
RECURSIVE Offsets(_, _)
Offsets(fb, sizes) ==
    IF sizes = {} THEN <<>>
    ELSE LET sz == CHOOSE x \in sizes : TRUE
         IN  fb[sz] \o Offsets(fb, sizes \ {sz})

\* no offset is twice in sequence s
NoDuplicate(s) == \A i, j \in 1..Len(s) : s[i] = s[j] => i = j

\* C25: the registry holds every offset at most once, over all its sizes.
C25_RegisteredOnce == NoDuplicate(Offsets(freeBlocks, DOMAIN freeBlocks))

\* C25 on the stores where no loadDB() was called after another call, or
\* overlapped one: there the property holds.
C25_WithoutLoadRace == Clean => NoDuplicate(Offsets(freeBlocks, DOMAIN freeBlocks))

\* C25: loadDB() ran twice on the file with a free block at 16, and the
\* registry holds the offset 16 twice under the size 16.
C25_RegisteredTwice ==
    /\ Quiescent /\ loadCalls = 2 /\ nOps = 2
    /\ 16 \in DOMAIN freeBlocks /\ freeBlocks[16] = <<16, 16>>

====
